---- MODULE Spec2Model ----
(***************************************************************************)
(* Vector math kernels of pl/math: the SVE single-precision cos            *)
(* (sv_cosf_2u1.c) and the Neon double-precision atan (v_atan_2u5.c).      *)
(*                                                                         *)
(* Bit patterns wider than 31 bits are kept in limbs: a 32-bit pattern is  *)
(* [s, m] (bit 31, bits 30..0), a 64-bit pattern is [s, mag] with          *)
(* mag = [e, mid, lo] (bit 63; bits 62..52, 51..26, 25..0).  A double the  *)
(* kernel computes by division or by eval_poly keeps its sign bit and has  *)
(* a magnitude naming the operation.  Single-precision arithmetic follows  *)
(* the Arm pseudocode (FPMulAdd, FPMul, FPSub, FPTrigMAdd, FPTrigSMul,     *)
(* FPTrigSSel) with round-to-nearest-even, exact intermediate values being *)
(* natural numbers in little-endian limbs of 12 bits.                      *)
(***************************************************************************)
EXTENDS Integers, Sequences, FiniteSets, TLC

(***************************************************************************)
(* Natural numbers of any size: little-endian sequences of 12-bit limbs.   *)
(***************************************************************************)
LimbBits == 6 + 6
Limb == 2 ^ LimbBits

Max(a, b) == IF a >= b THEN a ELSE b
Min(a, b) == IF a <= b THEN a ELSE b

LimbAt(a, i) == IF i <= Len(a) THEN a[i] ELSE 0

RECURSIVE Carry(_, _)
Carry(s, c) ==
  IF s = <<>>
  THEN IF c = 0 THEN <<>> ELSE <<c % Limb>> \o Carry(<<>>, c \div Limb)
  ELSE LET t == Head(s) + c
       IN  <<t % Limb>> \o Carry(Tail(s), t \div Limb)

RECURSIVE NatTrim(_)
NatTrim(a) ==
  IF a = <<>> THEN a
  ELSE IF a[Len(a)] = 0 THEN NatTrim(SubSeq(a, 1, Len(a) - 1)) ELSE a

NatOfInt(n) == IF n = 0 THEN <<>> ELSE Carry(<<n>>, 0)

RECURSIVE NatToInt(_)
NatToInt(a) == IF a = <<>> THEN 0 ELSE Head(a) + Limb * NatToInt(Tail(a))

NatAdd(a, b) ==
  Carry([i \in 1..Max(Len(a), Len(b)) |-> LimbAt(a, i) + LimbAt(b, i)], 0)

\* a - b, for a >= b
NatSub(a, b) ==
  NatTrim(Carry([i \in 1..Max(Len(a), Len(b)) |-> LimbAt(a, i) - LimbAt(b, i)], 0))

RECURSIVE ConvSum(_, _, _, _)
ConvSum(a, b, k, i) ==
  IF i > Len(a) THEN 0
  ELSE (IF k + 1 - i >= 1 /\ k + 1 - i <= Len(b) THEN a[i] * b[k + 1 - i] ELSE 0)
       + ConvSum(a, b, k, i + 1)

NatMul(a, b) ==
  IF a = <<>> \/ b = <<>> THEN <<>>
  ELSE NatTrim(Carry([k \in 1..(Len(a) + Len(b) - 1) |-> ConvSum(a, b, k, 1)], 0))

\* a * 2^k
NatShl(a, k) ==
  IF a = <<>> THEN a
  ELSE [i \in 1..(k \div LimbBits) |-> 0]
       \o Carry([i \in 1..Len(a) |-> a[i] * 2 ^ (k % LimbBits)], 0)

\* floor(a / 2^k)
NatShr(a, k) ==
  LET j == k \div LimbBits
      r == k % LimbBits
  IN  IF j >= Len(a) THEN <<>>
      ELSE NatTrim([i \in 1..(Len(a) - j) |->
                      (a[i + j] \div 2 ^ r)
                      + (LimbAt(a, i + j + 1) % 2 ^ r) * 2 ^ (LimbBits - r)])

RECURSIVE NatCmpFrom(_, _, _)
NatCmpFrom(a, b, i) ==
  IF i = 0 THEN 0
  ELSE IF a[i] > b[i] THEN 1
  ELSE IF a[i] < b[i] THEN -1
  ELSE NatCmpFrom(a, b, i - 1)

\* -1, 0, 1 as a < b, a = b, a > b (both trimmed)
NatCmp(a, b) ==
  IF Len(a) > Len(b) THEN 1
  ELSE IF Len(a) < Len(b) THEN -1
  ELSE NatCmpFrom(a, b, Len(a))

RECURSIVE IntBitLen(_)
IntBitLen(n) == IF n = 0 THEN 0 ELSE 1 + IntBitLen(n \div 2)

NatBitLen(a) ==
  IF a = <<>> THEN 0 ELSE LimbBits * (Len(a) - 1) + IntBitLen(a[Len(a)])

RECURSIVE BitAnd(_, _)
BitAnd(a, b) ==
  IF a = 0 \/ b = 0 THEN 0
  ELSE (a % 2) * (b % 2) + 2 * BitAnd(a \div 2, b \div 2)

RECURSIVE BitXor(_, _)
BitXor(a, b) ==
  IF a = 0 THEN b
  ELSE IF b = 0 THEN a
  ELSE ((a + b) % 2) + 2 * BitXor(a \div 2, b \div 2)

(***************************************************************************)
(* IEEE-754 binary32 on bit patterns [s, m].                               *)
(***************************************************************************)
U32(s, m) == [s |-> s, m |-> m]
F32Exp(x) == x.m \div 2 ^ 23
F32Frac(x) == x.m % 2 ^ 23

F32Inf(s) == U32(s, 255 * 2 ^ 23)
F32Zero(s) == U32(s, 0)
F32DefaultNaN == U32(0, 255 * 2 ^ 23 + 2 ^ 22)

IsNaN32(x) == F32Exp(x) = 255 /\ F32Frac(x) # 0
IsSNaN32(x) == IsNaN32(x) /\ F32Frac(x) < 2 ^ 22
IsQNaN32(x) == IsNaN32(x) /\ F32Frac(x) >= 2 ^ 22
IsInf32(x) == F32Exp(x) = 255 /\ F32Frac(x) = 0
IsZero32(x) == x.m = 0
Quiet32(x) == IF IsSNaN32(x) THEN U32(x.s, x.m + 2 ^ 22) ELSE x

\* significand and exponent of its last bit: |x| = F32Sig(x) * 2^F32Lsb(x)
F32Sig(x) == IF F32Exp(x) = 0 THEN F32Frac(x) ELSE F32Frac(x) + 2 ^ 23
F32Lsb(x) == IF F32Exp(x) = 0 THEN -149 ELSE F32Exp(x) - 150

\* FPRound: the nonzero exact value (-1)^s * n * 2^e, to nearest, ties to even.
\* q is the exponent of the last bit kept, sh the number of bits cut off, fl the
\* bits kept, c the comparison of the bits cut off with half a unit.
FPPackNormal32(s, q, r) ==
  IF q + 150 >= 255 THEN F32Inf(s) ELSE U32(s, (q + 150) * 2 ^ 23 + (r - 2 ^ 23))

FPPack32(s, q, r) ==
  IF r < 2 ^ 23 THEN U32(s, r)
  ELSE IF r = 2 ^ 24 THEN FPPackNormal32(s, q + 1, 2 ^ 23)
  ELSE FPPackNormal32(s, q, r)

FPRoundUp32(s, q, fl, c) ==
  FPPack32(s, q, IF c > 0 \/ (c = 0 /\ fl % 2 = 1) THEN fl + 1 ELSE fl)

NatTailCmp(n, sh) ==
  NatCmp(NatShl(NatSub(n, NatShl(NatShr(n, sh), sh)), 1), NatShl(<<1>>, sh))

FPRoundCut32(s, n, q, sh) ==
  FPRoundUp32(s, q,
              NatToInt(IF sh <= 0 THEN NatShl(n, -sh) ELSE NatShr(n, sh)),
              IF sh <= 0 THEN -1 ELSE NatTailCmp(n, sh))

FPRoundAt32(s, n, e, q) == FPRoundCut32(s, n, q, q - e)

FPRound32(s, n, e) == FPRoundAt32(s, n, e, Max(e + NatBitLen(n) - 24, -149))

\* the rounded sum of the exact values (-1)^s1 a 2^e and (-1)^s2 b 2^e;
\* c compares a with b (2: the signs agree and the magnitudes add)
FPAddCmp32(s1, a, s2, b, e, c) ==
  IF c = 0 THEN F32Zero(0)
  ELSE FPRound32(IF c > 0 THEN s1 ELSE s2,
                 IF c = 2 THEN NatAdd(a, b) ELSE IF c > 0 THEN NatSub(a, b) ELSE NatSub(b, a),
                 e)

FPAddAligned32(s1, a, s2, b, e) ==
  FPAddCmp32(s1, a, s2, b, e, IF s1 = s2 THEN 2 ELSE NatCmp(a, b))

FPAddAt32(s1, n1, e1, s2, n2, e2, e) ==
  FPAddAligned32(s1, NatShl(n1, e1 - e), s2, NatShl(n2, e2 - e), e)

\* the rounded sum of two exact values (-1)^s1 n1 2^e1 + (-1)^s2 n2 2^e2, not both zero
FPAddExact32(s1, n1, e1, s2, n2, e2) ==
  FPAddAt32(s1, n1, e1, s2, n2, e2, Min(e1, e2))

FPProcessNaNs3(a, x, y) ==
  IF IsSNaN32(a) THEN Quiet32(a)
  ELSE IF IsSNaN32(x) THEN Quiet32(x)
  ELSE IF IsSNaN32(y) THEN Quiet32(y)
  ELSE IF IsQNaN32(a) THEN a
  ELSE IF IsQNaN32(x) THEN x
  ELSE y

\* FPMulAdd: addend + op1 * op2 with a single rounding
FPMulAdd32(addend, op1, op2) ==
  LET ps    == (op1.s + op2.s) % 2
      infP  == IsInf32(op1) \/ IsInf32(op2)
      zeroP == IsZero32(op1) \/ IsZero32(op2)
      bad   == (IsInf32(op1) /\ IsZero32(op2)) \/ (IsZero32(op1) /\ IsInf32(op2))
      np    == NatMul(NatOfInt(F32Sig(op1)), NatOfInt(F32Sig(op2)))
      ep    == F32Lsb(op1) + F32Lsb(op2)
  IN  IF IsQNaN32(addend) /\ bad THEN F32DefaultNaN
      ELSE IF IsNaN32(addend) \/ IsNaN32(op1) \/ IsNaN32(op2)
           THEN FPProcessNaNs3(addend, op1, op2)
      ELSE IF bad \/ (IsInf32(addend) /\ infP /\ addend.s # ps) THEN F32DefaultNaN
      ELSE IF IsInf32(addend) THEN addend
      ELSE IF infP THEN F32Inf(ps)
      ELSE IF zeroP /\ IsZero32(addend)
           THEN F32Zero(IF addend.s = ps THEN ps ELSE 0)
      ELSE IF zeroP THEN addend
      ELSE FPAddExact32(ps, np, ep, addend.s, NatOfInt(F32Sig(addend)), F32Lsb(addend))

FPMul32(op1, op2) ==
  LET ps == (op1.s + op2.s) % 2
  IN  IF IsNaN32(op1) \/ IsNaN32(op2)
      THEN FPProcessNaNs3(F32Zero(0), op1, op2)
      ELSE IF (IsInf32(op1) /\ IsZero32(op2)) \/ (IsZero32(op1) /\ IsInf32(op2))
           THEN F32DefaultNaN
      ELSE IF IsInf32(op1) \/ IsInf32(op2) THEN F32Inf(ps)
      ELSE IF IsZero32(op1) \/ IsZero32(op2) THEN F32Zero(ps)
      ELSE FPRound32(ps, NatMul(NatOfInt(F32Sig(op1)), NatOfInt(F32Sig(op2))),
                     F32Lsb(op1) + F32Lsb(op2))

FPSub32(op1, op2) ==
  LET n2 == U32(1 - op2.s, op2.m)
  IN  IF IsNaN32(op1) \/ IsNaN32(op2)
      THEN FPProcessNaNs3(F32Zero(0), op1, op2)
      ELSE IF IsInf32(op1) /\ IsInf32(op2) /\ op1.s = op2.s THEN F32DefaultNaN
      ELSE IF IsInf32(op1) THEN op1
      ELSE IF IsInf32(op2) THEN n2
      ELSE IF IsZero32(op1) /\ IsZero32(op2)
           THEN F32Zero(IF op1.s = n2.s THEN op1.s ELSE 0)
      ELSE IF IsZero32(op2) THEN op1
      ELSE IF IsZero32(op1) THEN n2
      ELSE FPAddExact32(op1.s, NatOfInt(F32Sig(op1)), F32Lsb(op1),
                        n2.s, NatOfInt(F32Sig(n2)), F32Lsb(n2))

(***************************************************************************)
(* State.  Two threads may call the kernels; every local of a call lives   *)
(* in the calling thread's frame.                                          *)
(***************************************************************************)
VARIABLES
  WANT_SIMD_EXCEPT,  \* build: 1 when the fenv-exact whole-vector fallback is compiled in
  pc,                \* per thread: the position of its call
  pending,           \* per thread: the calls it has still to make
  arg,               \* per thread: [fn, x, pg] of the call in progress
  cos,               \* per thread: the locals of SV_NAME_F1 (cos)
  atan,              \* per thread: the locals of V_NAME_D1 (atan)
  ret,               \* per thread: the vector the call is about to return
  call,              \* per thread: the locals of sv_call_f32 / v_call_f64 (lane cursor p, vector y)
  scalar,            \* per thread: the lanes the scalar routine was invoked for, in order
  trace,             \* per thread: the stages the call went through
  log                \* the completed calls: [t, fn, x, pg, ret, scalar, trace]

vars == <<WANT_SIMD_EXCEPT, pc, pending, arg, cos, atan, ret, call, scalar, trace, log>>

Threads == {1, 2}

\* automatic storage: thread t's own copy of a frame
Frame(f, t) == f[t]

(***************************************************************************)
(* SVE operations on vectors of NLanes 32-bit lanes.                       *)
(***************************************************************************)
NLanes == 2
Lanes == 1..NLanes

F32Lit(s, h, p) == U32(s, (p + 127) * 2 ^ 23 + h \div 2)

NegPio2_1 == F32Lit(1, 9576374, 0)      \* -0x1.921fb6p+0f
NegPio2_2 == F32Lit(0, 7830108, -25)    \*  0x1.777a5cp-25f
NegPio2_3 == F32Lit(0, 15620570, -50)   \*  0x1.ee59dap-50f
RangeVal  == F32Lit(0, 0, 20)           \*  0x1p20f
InvPio2   == F32Lit(0, 4584198, -1)     \*  0x1.45f306p-1f
ShiftEven == F32Lit(0, 8388608, 23)     \*  variant: 0x1.8p+23f, an even integer
Shift     == F32Lit(0, 8388610, 23)     \*  0x1.800002p+23f
Cos_AbsMask == U32(0, 2147483647)       \*  0x7fffffff

sv_f32(c) == [i \in Lanes |-> c]

And32(a, b) == U32(a.s * b.s, BitAnd(a.m, b.m))
Ge32(a, b) == a.s > b.s \/ (a.s = b.s /\ a.m >= b.m)

\* ACLE leaves the inactive lanes of an _x operation unspecified: they hold
\* what the instructions the build selects for that operation leave there,
\* operation by operation:
\*   "result"  an unpredicated instruction computes every lane;
\*   "op1".."op3"  a merging instruction keeps the register its destination is
\*             tied to, one of the operands (AND either operand, FMLA the
\*             addend, FMAD a multiplicand, FSUB/FSUBR and FMUL either operand);
\*   "zero"    a zeroing MOVPRFX in front of the merging instruction;
\*   "other"   any other selection (a destination tied to a register of the
\*             build's own, such as a negated constant, or left as it was):
\*             the lane holds a bit pattern the kernel does not determine.
\* FMLA/FMAD have no unpredicated encoding.
AndForms  == {"result", "op1", "op2", "zero", "other"}
FmlaForms == {"op1", "op2", "op3", "zero", "other"}
FsubForms == {"result", "op1", "op2", "zero", "other"}
FmulForms == {"result", "op1", "op2", "zero", "other"}

\* a lane whose bit pattern the kernel does not determine: any 32-bit pattern
Unspecified == [s |-> -1, m |-> -1]
AllKnown(v) == \A k \in DOMAIN v : v[k] # Unspecified
\* the element of a set of one element
The(S) == CHOOSE r \in S : TRUE

\* the result of an _x operation on the operands ops selected in the form fm
SvX(pg, fm, ops, res) ==
  [i \in Lanes |-> IF pg[i] \/ fm = "result" THEN res[i]
                    ELSE IF fm = "op1" THEN ops[1][i]
                    ELSE IF fm = "op2" THEN ops[2][i]
                    ELSE IF fm = "op3" THEN ops[3][i]
                    ELSE IF fm = "zero" THEN F32Zero(0)
                    ELSE Unspecified]

\* with no inactive lane every form gives the same vector
FormsUnder(pg, forms) ==
  IF \A i \in Lanes : pg[i] THEN {CHOOSE fm \in forms : TRUE} ELSE forms

\* variant: the mask is not applied, the sign bit survives
svand_n_u32_x_nomask(pg, a, imm, fm) == a
svand_n_u32_x(pg, a, imm, fm) ==
  SvX(pg, fm, <<a, sv_f32(imm)>>,
      [i \in Lanes |-> And32(a[i], imm)])
\* variant: the comparison ignores the governing predicate
svcmpge_u32_allLanes(pg, a, b) == [i \in Lanes |-> Ge32(a[i], b[i])]
svcmpge_u32(pg, a, b) == [i \in Lanes |-> pg[i] /\ Ge32(a[i], b[i])]
svmla_f32_x(pg, a, b, c, fm) ==
  SvX(pg, fm, <<a, b, c>>,
      [i \in Lanes |-> The({IF AllKnown(v) THEN FPMulAdd32(v[1], v[2], v[3]) ELSE Unspecified :
                             v \in {<<a[i], b[i], c[i]>>}})])
svsub_f32_x(pg, a, b, fm) ==
  SvX(pg, fm, <<a, b>>,
      [i \in Lanes |-> The({IF AllKnown(v) THEN FPSub32(v[1], v[2]) ELSE Unspecified :
                             v \in {<<a[i], b[i]>>}})])
svmul_f32_x(pg, a, b, fm) ==
  SvX(pg, fm, <<a, b>>,
      [i \in Lanes |-> The({IF AllKnown(v) THEN FPMul32(v[1], v[2]) ELSE Unspecified :
                             v \in {<<a[i], b[i]>>}})])
svptest_any(pg, p) == \E i \in Lanes : pg[i] /\ p[i]

\* FTMAD coefficients (single precision): sine series 0..7, cosine series 8..15
FPTrigMAddCoefficient ==
  << U32(0, 1065353216), U32(1, 1042983595), U32(0, 1007192198), U32(1, 961546425),
     U32(0, 909548909),  U32(0, 0),          U32(0, 0),          U32(0, 0),
     U32(0, 1065353216), U32(1, 1056964608), U32(0, 1026206374), U32(1, 985007877),
     U32(0, 936196044),  U32(0, 0),          U32(0, 0),          U32(0, 0) >>

FPTrigMAdd(imm, op1, op2) ==
  FPMulAdd32(FPTrigMAddCoefficient[imm + 1 + (IF op2.s = 1 THEN 8 ELSE 0)],
             op1, U32(0, op2.m))

FPTrigSMul(op1, op2) ==
  LET res == FPMul32(op1, op1)
  IN  IF IsNaN32(res) THEN res ELSE U32(op2.m % 2, res.m)

FPTrigSSel(op1, op2) ==
  LET sel == IF op2.m % 2 = 1 THEN U32(0, 127 * 2 ^ 23) ELSE op1
  IN  U32((sel.s + ((op2.m \div 2) % 2)) % 2, sel.m)

\* unpredicated: every lane is computed, from an undetermined lane an undetermined one
svtssel_f32(a, b) ==
  [i \in Lanes |-> The({IF AllKnown(v) THEN FPTrigSSel(v[1], v[2]) ELSE Unspecified :
                         v \in {<<a[i], b[i]>>}})]
svtsmul_f32(a, b) ==
  [i \in Lanes |-> The({IF AllKnown(v) THEN FPTrigSMul(v[1], v[2]) ELSE Unspecified :
                         v \in {<<a[i], b[i]>>}})]
svtmad_f32(a, b, imm) ==
  [i \in Lanes |-> The({IF AllKnown(v) THEN FPTrigMAdd(imm, v[1], v[2]) ELSE Unspecified :
                         v \in {<<a[i], b[i]>>}})]

(***************************************************************************)
(* Neon operations on vectors of two 64-bit lanes.                          *)
(***************************************************************************)
VLanes == 1..2

U64(s, e, mid, lo) == [s |-> s, mag |-> [e |-> e, mid |-> mid, lo |-> lo]]
IsBits(v) == DOMAIN v.mag = {"e", "mid", "lo"}
U64OfInt(n) == U64(0, 0, 0, n)
Zero64 == U64(0, 0, 0, 0)
AllOnes64 == U64(1, 2047, 2 ^ 26 - 1, 2 ^ 26 - 1)
Mask64(b) == IF b THEN AllOnes64 ELSE Zero64

v_f64(c) == [i \in VLanes |-> c]
v_u64(c) == [i \in VLanes |-> c]

PiOver2 == U64(0, 1023, 38305493, 4467992)   \* 0x1.921fb54442d18p+0
Atan_AbsMask == U64(0, 2047, 2 ^ 26 - 1, 2 ^ 26 - 1)   \* 0x7fffffffffffffff
TinyBound == 993    \* 0x3e1
BigBound == 1076    \* 0x434
F64One(s) == U64(s, 1023, 0, 0)

And64(a, b) ==
  U64(a.s * b.s, BitAnd(a.mag.e, b.mag.e), BitAnd(a.mag.mid, b.mag.mid), BitAnd(a.mag.lo, b.mag.lo))
Not64(a) == U64(1 - a.s, 2047 - a.mag.e, 2 ^ 26 - 1 - a.mag.mid, 2 ^ 26 - 1 - a.mag.lo)
\* a ^ b; a computed double keeps its magnitude when b has no bit below bit 63
Xor64(a, b) ==
  IF IsBits(a) /\ IsBits(b)
  THEN U64((a.s + b.s) % 2, BitXor(a.mag.e, b.mag.e), BitXor(a.mag.mid, b.mag.mid),
           BitXor(a.mag.lo, b.mag.lo))
  ELSE IF IsBits(b) /\ b.mag = Zero64.mag
  THEN [s |-> (a.s + b.s) % 2, mag |-> a.mag]
  ELSE [s |-> (a.s + b.s) % 2, mag |-> [xor |-> <<a.mag, b.mag>>]]
\* a >> 52
Shr52(a) == U64OfInt(a.s * 2 ^ 11 + a.mag.e)
\* variant: a - b that stops at zero instead of wrapping
Sub64Saturating(a, b) ==
  LET dlo  == a.mag.lo - b.mag.lo
      dmid == a.mag.mid - b.mag.mid + (dlo \div 2 ^ 26)
      de   == a.mag.e - b.mag.e + (dmid \div 2 ^ 26)
      ds   == a.s - b.s + (de \div 2 ^ 11)
  IN  IF ds < 0 THEN U64(0, 0, 0, 0) ELSE U64(ds % 2, de % 2 ^ 11, dmid % 2 ^ 26, dlo % 2 ^ 26)
\* a - b modulo 2^64
Sub64(a, b) ==
  LET dlo  == a.mag.lo - b.mag.lo
      dmid == a.mag.mid - b.mag.mid + (dlo \div 2 ^ 26)
      de   == a.mag.e - b.mag.e + (dmid \div 2 ^ 26)
      ds   == a.s - b.s + (de \div 2 ^ 11)
  IN  U64(ds % 2, de % 2 ^ 11, dmid % 2 ^ 26, dlo % 2 ^ 26)
\* a > b, unsigned
Gt64(a, b) ==
  \/ a.s > b.s
  \/ a.s = b.s /\ a.mag.e > b.mag.e
  \/ a.s = b.s /\ a.mag.e = b.mag.e /\ a.mag.mid > b.mag.mid
  \/ a.s = b.s /\ a.mag.e = b.mag.e /\ a.mag.mid = b.mag.mid /\ a.mag.lo > b.mag.lo

IsNaN64(x) == IsBits(x) /\ x.mag.e = 2047 /\ (x.mag.mid # 0 \/ x.mag.lo # 0)
IsInf64(x) == IsBits(x) /\ x.mag.e = 2047 /\ x.mag.mid = 0 /\ x.mag.lo = 0
IsZero64(x) == IsBits(x) /\ x.mag = Zero64.mag
F64DefaultNaN == U64(0, 2047, 2 ^ 25, 0)
Quiet64(x) == U64(x.s, 2047, x.mag.mid + (IF x.mag.mid < 2 ^ 25 THEN 2 ^ 25 ELSE 0), x.mag.lo)

FPNeg64(x) == [s |-> 1 - x.s, mag |-> x.mag]
FPAbs64(x) == [s |-> 0, mag |-> x.mag]

\* FCAGT: |a| > |b|, false when either is a NaN
FPAbsGt64(a, b) ==
  ~IsNaN64(a) /\ ~IsNaN64(b) /\ Gt64(FPAbs64(a), FPAbs64(b))

\* FDIV a / b: the special operands exactly, the rounded quotient of two
\* finite nonzero operands by name, with the sign IEEE-754 gives it
FPDiv64(a, b) ==
  LET qs == (a.s + b.s) % 2
  IN  IF IsNaN64(a) THEN Quiet64(a)
      ELSE IF IsNaN64(b) THEN Quiet64(b)
      ELSE IF (IsInf64(a) /\ IsInf64(b)) \/ (IsZero64(a) /\ IsZero64(b)) THEN F64DefaultNaN
      ELSE IF IsInf64(a) \/ IsZero64(b) THEN U64(qs, 2047, 0, 0)
      ELSE IF IsZero64(a) \/ IsInf64(b) THEN U64(qs, 0, 0, 0)
      ELSE [s |-> qs, mag |-> [quot |-> <<a.mag, b.mag>>]]

vcagtq_f64(a, b) == [i \in VLanes |-> Mask64(FPAbsGt64(a[i], b[i]))]
vdivq_f64(a, b) == [i \in VLanes |-> FPDiv64(a[i], b[i])]
vabsq_f64(a) == [i \in VLanes |-> FPAbs64(a[i])]
vnegq_f64(a) == [i \in VLanes |-> FPNeg64(a[i])]
\* BSL with a comparison's mask: lanes of all ones take a, lanes of zero take b
vbslq_f64(m, a, b) ==
  [i \in VLanes |-> IF m[i] = AllOnes64 THEN a[i]
                    ELSE IF m[i] = Zero64 THEN b[i]
                    ELSE [s |-> (IF m[i].s = 1 THEN a[i].s ELSE b[i].s),
                          mag |-> [bsl |-> <<m[i].mag, a[i].mag, b[i].mag>>]]]
v_any_u64(m) == \E i \in VLanes : m[i] # Zero64

(***************************************************************************)
(* V_NAME_D1 (atan): the statements of the kernel.                         *)
(***************************************************************************)
\* line 30: ix = vreinterpretq_u64_f64 (x), the same 64 bits
AtanIx(x) == x
\* line 31: sign = ix & ~AbsMask
AtanSign(ix) == [i \in VLanes |-> And64(ix[i], Not64(Atan_AbsMask))]
\* line 34: ia12 = (ix >> 52) & 0x7ff
AtanIa12(ix) == [i \in VLanes |-> And64(Shr52(ix[i]), U64OfInt(2047))]
\* line 35: special = ia12 - TinyBound > BigBound - TinyBound
AtanSpecial(ia12) ==
  [i \in VLanes |-> Mask64(Gt64(Sub64(ia12[i], U64OfInt(TinyBound)),
                                U64OfInt(BigBound - TinyBound)))]
\* line 45: red = |x| > 1
AtanRed(x) == vcagtq_f64(x, v_f64(F64One(0)))
\* line 47: z = -1/x where red, x elsewhere
AtanZ(red, x) == vbslq_f64(red, vdivq_f64(v_f64(F64One(1)), x), x)
\* line 48: shift = pi/2 where red, 0 elsewhere
AtanShift(red) == vbslq_f64(red, v_f64(PiOver2), v_f64(Zero64))
\* variant: z is used without vabsq_f64
AtanAzNoAbs(red, z) == vbslq_f64(red, vnegq_f64(z), z)
\* lines 50-51: az = -|z| where red, |z| elsewhere
AtanAz(red, z) == vbslq_f64(red, vnegq_f64(vabsq_f64(z)), vabsq_f64(z))
\* line 57: y ^ sign
AtanApplySign(y, sign) == [i \in VLanes |-> Xor64(y[i], sign[i])]

\* eval_poly of atan_common.h: y = shift + az + az * z^2 * P(z^2) (lines 20, 49, 54).
\* z enters by its square only.  The value is exact where az is zero; elsewhere
\* it is named by its operands and has the sign of shift + az, |az| <= 1 < pi/2.
EvalPolyLane(z, az, shift) ==
  LET z2 == [s |-> 0, mag |-> z.mag]
  IN  IF IsZero64(az) THEN U64(IF IsZero64(shift) THEN 0 ELSE shift.s,
                               shift.mag.e, shift.mag.mid, shift.mag.lo)
      ELSE [s   |-> IF IsZero64(shift) THEN az.s ELSE shift.s,
            mag |-> [poly |-> <<z2.mag, az, shift>>]]
eval_poly(z, az, shift) == [i \in VLanes |-> EvalPolyLane(z[i], az[i], shift[i])]

\* variant: only the special lanes are handed to v_call_f64
VCallPredicateSpecialOnly(special) == special
\* line 38: the lanes v_call_f64 is told to compute, v_u64 (-1)
VCallPredicate(special) == v_u64(AllOnes64)

\* the scalar routine atan of math/: odd, with the sign of its argument
ScalarAtan(x) == [s |-> x.s, mag |-> [atan |-> x.mag]]

(***************************************************************************)
(* SV_NAME_F1 (cos): the statements of the kernel, stage by stage.         *)
(***************************************************************************)
\* lines 41-53: |x|, the fallback predicate, n = rint(|x|/(pi/2)), r = |x| - n*(pi/2)
\* lines 41-42: r = |x|
CosAbs(x, pg, fm) == svand_n_u32_x(pg, x, Cos_AbsMask, fm)
\* lines 43-44: cmp = |x| >= RangeVal, as bit patterns
CosCmp(pg, r) == svcmpge_u32(pg, r, sv_f32(RangeVal))
\* line 47: q = Shift + r * InvPio2
CosQ(pg, r, fm) == svmla_f32_x(pg, sv_f32(Shift), r, sv_f32(InvPio2), fm)
\* line 48: n = q - Shift
CosN(pg, q, fm) == svsub_f32_x(pg, q, sv_f32(Shift), fm)
\* lines 51-53: r = r + n * c, for c the three parts of -pi/2 in turn
CosR(pg, r, n, c, fm) == svmla_f32_x(pg, r, n, sv_f32(c), fm)

\* fm names the instruction form of each _x operation by its line
CosReduce(x, pg, fm) ==
  LET r0  == CosAbs(x, pg, fm.l41)
      q   == CosQ(pg, r0, fm.l47)
      n   == CosN(pg, q, fm.l48)
      r1  == CosR(pg, r0, n, NegPio2_1, fm.l51)
      r2  == CosR(pg, r1, n, NegPio2_2, fm.l52)
      r3  == CosR(pg, r2, n, NegPio2_3, fm.l53)
  IN  [cmp |-> CosCmp(pg, r0), q |-> q, n |-> n, r |-> r3]


\* lines 56-65: the factor (1.0 or r, by bit 0 of q) and the cos(r) polynomial
CosEvaluate(r, q) ==
  LET f  == svtssel_f32(r, q)
      r2 == svtsmul_f32(r, q)
      y0 == sv_f32(F32Zero(0))
      y4 == svtmad_f32(y0, r2, 4)
      y3 == svtmad_f32(y4, r2, 3)
      y2 == svtmad_f32(y3, r2, 2)
      y1 == svtmad_f32(y2, r2, 1)
  IN  [f |-> f, r2 |-> r2, y |-> svtmad_f32(y1, r2, 0)]

\* line 68: apply the factor
CosReconstruct(pg, f, y, fm) == svmul_f32_x(pg, f, y, fm)

\* variant: svptest_last, is the last active lane flagged
CosCheckLast(pg, cmp) ==
  \E i \in Lanes : pg[i] /\ cmp[i] /\ \A j \in Lanes : pg[j] => j <= i
\* line 72: is any active lane flagged
CosCheck(pg, cmp) == svptest_any(pg, cmp)

\* the scalar routine cosf of math/, applied to one lane
ScalarCosf(x) == [cosf |-> x]

\* svpfirst / svpnext_b32 over cmp: the first flagged lane after lane p (0: none)
NextLane(cmp, p) ==
  IF \E i \in DOMAIN cmp : i > p /\ cmp[i]
  THEN CHOOSE i \in DOMAIN cmp : i > p /\ cmp[i] /\ \A j \in DOMAIN cmp : (j > p /\ cmp[j]) => i <= j
  ELSE 0

\* variant: the governing predicate is handed over in place of cmp
SpecialcaseCmpPg(pg, cmp) == pg
\* line 73: the predicate handed to __sv_cosf_specialcase (x, y, cmp)
SpecialcaseCmp(pg, cmp) == cmp

NoVec == <<>>
NoCosFrame == [cmp |-> NoVec, q |-> NoVec, n |-> NoVec, r |-> NoVec,
               f |-> NoVec, r2 |-> NoVec, y |-> NoVec]
NoAtanFrame == [ix |-> NoVec, sign |-> NoVec, ia12 |-> NoVec, special |-> NoVec,
                red |-> NoVec, z |-> NoVec, shift |-> NoVec, az |-> NoVec, y |-> NoVec]
NoCall == [p |-> 0, cmp |-> NoVec, y |-> NoVec]

Stage(t, name) == trace' = [trace EXCEPT ![t] = Append(@, name)]

UnchBuild == UNCHANGED WANT_SIMD_EXCEPT

\* a thread enters a kernel with the next of its pending calls
Enter(t, first) ==
  /\ arg' = [arg EXCEPT ![t] = Head(pending[t])]
  /\ pending' = [pending EXCEPT ![t] = Tail(@)]
  /\ cos' = [cos EXCEPT ![t] = NoCosFrame]
  /\ atan' = [atan EXCEPT ![t] = NoAtanFrame]
  /\ call' = [call EXCEPT ![t] = NoCall]
  /\ ret' = [ret EXCEPT ![t] = NoVec]
  /\ scalar' = [scalar EXCEPT ![t] = <<>>]
  /\ trace' = [trace EXCEPT ![t] = <<>>]
  /\ pc' = [pc EXCEPT ![t] = first]
  /\ UNCHANGED log /\ UnchBuild

CosCall(t) ==
  /\ pc[t] = "idle" /\ pending[t] # <<>> /\ Head(pending[t]).fn = "cos"
  /\ Enter(t, "cos_reduce")

\* lines 41-44: r = |x| and the fallback predicate
CosAbsStep(t) ==
  /\ pc[t] = "cos_reduce"
  /\ LET x  == Frame(arg, t).x
         pg == Frame(arg, t).pg
     IN  \E fm \in FormsUnder(pg, AndForms) :
           LET r == CosAbs(x, pg, fm)
           IN  cos' = [cos EXCEPT ![t] = [Frame(cos, t) EXCEPT !.r = r, !.cmp = CosCmp(pg, r)]]
  /\ Stage(t, "Reduce")
  /\ pc' = [pc EXCEPT ![t] = "cos_q"]
  /\ UNCHANGED <<pending, arg, atan, ret, call, scalar, log>> /\ UnchBuild

\* line 47
CosQStep(t) ==
  /\ pc[t] = "cos_q"
  /\ LET pg == Frame(arg, t).pg
         c  == Frame(cos, t)
     IN  \E fm \in FormsUnder(pg, FmlaForms) :
           cos' = [cos EXCEPT ![t] = [c EXCEPT !.q = CosQ(pg, c.r, fm)]]
  /\ pc' = [pc EXCEPT ![t] = "cos_n"]
  /\ UNCHANGED <<pending, arg, atan, ret, call, scalar, trace, log>> /\ UnchBuild

\* line 48
CosNStep(t) ==
  /\ pc[t] = "cos_n"
  /\ LET pg == Frame(arg, t).pg
         c  == Frame(cos, t)
     IN  \E fm \in FormsUnder(pg, FsubForms) :
           cos' = [cos EXCEPT ![t] = [c EXCEPT !.n = CosN(pg, c.q, fm)]]
  /\ pc' = [pc EXCEPT ![t] = "cos_r1"]
  /\ UNCHANGED <<pending, arg, atan, ret, call, scalar, trace, log>> /\ UnchBuild

\* lines 51-53, one statement at a time: the constant and the statement after it
CosRLine ==
  [cos_r1 |-> [c |-> NegPio2_1, next |-> "cos_r2"],
   cos_r2 |-> [c |-> NegPio2_2, next |-> "cos_r3"],
   cos_r3 |-> [c |-> NegPio2_3, next |-> "cos_evaluate"]]

CosRStep(t) ==
  /\ pc[t] \in DOMAIN CosRLine
  /\ LET pg == Frame(arg, t).pg
         c  == Frame(cos, t)
     IN  \E fm \in FormsUnder(pg, FmlaForms) :
           cos' = [cos EXCEPT ![t] = [c EXCEPT !.r = CosR(pg, c.r, c.n, CosRLine[pc[t]].c, fm)]]
  /\ pc' = [pc EXCEPT ![t] = CosRLine[pc[t]].next]
  /\ UNCHANGED <<pending, arg, atan, ret, call, scalar, trace, log>> /\ UnchBuild

CosEvaluateStep(t) ==
  /\ pc[t] = "cos_evaluate"
  /\ LET c == Frame(cos, t)
         v == CosEvaluate(c.r, c.q)
     IN  cos' = [cos EXCEPT ![t] = [c EXCEPT !.f = v.f, !.r2 = v.r2, !.y = v.y]]
  /\ Stage(t, "Evaluate")
  /\ pc' = [pc EXCEPT ![t] = "cos_reconstruct"]
  /\ UNCHANGED <<pending, arg, atan, ret, call, scalar, log>> /\ UnchBuild

CosReconstructStep(t) ==
  /\ pc[t] = "cos_reconstruct"
  /\ \E fm \in FormsUnder(Frame(arg, t).pg, FmulForms) :
       LET c == Frame(cos, t)
       IN  cos' = [cos EXCEPT ![t] = [c EXCEPT !.y = CosReconstruct(Frame(arg, t).pg, c.f, c.y, fm)]]
  /\ Stage(t, "Reconstruct")
  /\ pc' = [pc EXCEPT ![t] = "cos_check"]
  /\ UNCHANGED <<pending, arg, atan, ret, call, scalar, log>> /\ UnchBuild

\* lines 72-74: branch to __sv_cosf_specialcase (x, y, cmp), or return y
CosCheckStep(t) ==
  /\ pc[t] = "cos_check"
  /\ Stage(t, "Check")
  /\ LET c == Frame(cos, t)
     IN  IF CosCheck(Frame(arg, t).pg, c.cmp)
         THEN /\ pc' = [pc EXCEPT ![t] = "cos_special"]
              /\ call' = [call EXCEPT ![t] =
                            [p |-> 0, cmp |-> SpecialcaseCmp(Frame(arg, t).pg, c.cmp), y |-> c.y]]
              /\ UNCHANGED ret
         ELSE /\ pc' = [pc EXCEPT ![t] = "return"]
              /\ ret' = [ret EXCEPT ![t] = c.y]
              /\ UNCHANGED call
  /\ UNCHANGED <<pending, arg, cos, atan, scalar, log>> /\ UnchBuild

\* sv_call_f32 (cosf, x, y, cmp): p = svpfirst (cmp, svpfalse ())
SvCallEnter(t) ==
  /\ pc[t] = "cos_special"
  /\ Stage(t, "Fallback")
  /\ call' = [call EXCEPT ![t] = [Frame(call, t) EXCEPT !.p = NextLane(Frame(call, t).cmp, 0)]]
  /\ pc' = [pc EXCEPT ![t] = "sv_call"]
  /\ UNCHANGED <<pending, arg, cos, atan, ret, scalar, log>> /\ UnchBuild

\* one turn of its loop: y = svsel (p, cosf (x[p]), y); p = svpnext_b32 (cmp, p)
SvCallLane(t) ==
  /\ pc[t] = "sv_call"
  /\ LET c == Frame(call, t)
     IN  /\ c.p # 0
         /\ call' = [call EXCEPT ![t] =
                       [c EXCEPT !.y = [c.y EXCEPT ![c.p] = ScalarCosf(Frame(arg, t).x[c.p])],
                                 !.p = NextLane(c.cmp, c.p)]]
         /\ scalar' = [scalar EXCEPT ![t] = Append(@, c.p)]
  /\ UNCHANGED <<pc, pending, arg, cos, atan, ret, trace, log>> /\ UnchBuild

\* svptest_any (cmp, p) is false: the loop ends and y is returned
SvCallExit(t) ==
  /\ pc[t] = "sv_call"
  /\ Frame(call, t).p = 0
  /\ ret' = [ret EXCEPT ![t] = Frame(call, t).y]
  /\ pc' = [pc EXCEPT ![t] = "return"]
  /\ UNCHANGED <<pending, arg, cos, atan, call, scalar, trace, log>> /\ UnchBuild

AtanCall(t) ==
  /\ pc[t] = "idle" /\ pending[t] # <<>> /\ Head(pending[t]).fn = "atan"
  /\ Enter(t, "atan_bits")

\* variant: lines 34-38 are compiled whatever WANT_SIMD_EXCEPT is
AtanAfterBitsAlwaysCheck == "atan_check"
\* line 33: #if WANT_SIMD_EXCEPT compiles lines 34-38 in, or leaves them out
AtanAfterBits == IF WANT_SIMD_EXCEPT = 1 THEN "atan_check" ELSE "atan_reduce"

\* lines 30-31, then the #if of line 33
AtanBitsStep(t) ==
  /\ pc[t] = "atan_bits"
  /\ LET ix == AtanIx(Frame(arg, t).x)
     IN  atan' = [atan EXCEPT ![t] = [Frame(atan, t) EXCEPT !.ix = ix, !.sign = AtanSign(ix)]]
  /\ pc' = [pc EXCEPT ![t] = AtanAfterBits]
  /\ UNCHANGED <<pending, arg, cos, ret, call, scalar, trace, log>> /\ UnchBuild

\* lines 34-38 (WANT_SIMD_EXCEPT): if any lane is special, v_call_f64 (atan, x, v_f64 (0), v_u64 (-1))
AtanCheckStep(t) ==
  /\ pc[t] = "atan_check"
  /\ Stage(t, "Check")
  /\ LET a       == Frame(atan, t)
         ia12    == AtanIa12(a.ix)
         special == AtanSpecial(ia12)
     IN  /\ atan' = [atan EXCEPT ![t] = [a EXCEPT !.ia12 = ia12, !.special = special]]
         /\ IF v_any_u64(special)
            THEN /\ pc' = [pc EXCEPT ![t] = "atan_special"]
                 /\ call' = [call EXCEPT ![t] =
                               [p |-> 0, cmp |-> VCallPredicate(special), y |-> v_f64(Zero64)]]
            ELSE /\ pc' = [pc EXCEPT ![t] = "atan_reduce"]
                 /\ UNCHANGED call
  /\ UNCHANGED <<pending, arg, cos, ret, scalar, log>> /\ UnchBuild

\* v_call_f64 (f, x, y, p) starts with lane 0
VCallEnter(t) ==
  /\ pc[t] = "atan_special"
  /\ Stage(t, "Fallback")
  /\ call' = [call EXCEPT ![t] = [Frame(call, t) EXCEPT !.p = 1]]
  /\ pc' = [pc EXCEPT ![t] = "v_call"]
  /\ UNCHANGED <<pending, arg, cos, atan, ret, scalar, log>> /\ UnchBuild

\* p[i] ? f (x[i]) : y[i], lane by lane
VCallLane(t) ==
  /\ pc[t] = "v_call"
  /\ LET c == Frame(call, t)
     IN  /\ c.p \in VLanes
         /\ IF c.cmp[c.p] # Zero64
            THEN /\ call' = [call EXCEPT ![t] =
                               [c EXCEPT !.y = [c.y EXCEPT ![c.p] = ScalarAtan(Frame(arg, t).x[c.p])],
                                         !.p = c.p + 1]]
                 /\ scalar' = [scalar EXCEPT ![t] = Append(@, c.p)]
            ELSE /\ call' = [call EXCEPT ![t] = [c EXCEPT !.p = c.p + 1]]
                 /\ UNCHANGED scalar
  /\ UNCHANGED <<pc, pending, arg, cos, atan, ret, trace, log>> /\ UnchBuild

VCallExit(t) ==
  /\ pc[t] = "v_call"
  /\ Frame(call, t).p \notin VLanes
  /\ ret' = [ret EXCEPT ![t] = Frame(call, t).y]
  /\ pc' = [pc EXCEPT ![t] = "return"]
  /\ UNCHANGED <<pending, arg, cos, atan, call, scalar, trace, log>> /\ UnchBuild

\* lines 45-51
AtanReduceStep(t) ==
  /\ pc[t] = "atan_reduce"
  /\ LET x   == Frame(arg, t).x
         red == AtanRed(x)
         z   == AtanZ(red, x)
     IN  atan' = [atan EXCEPT ![t] = [Frame(atan, t) EXCEPT !.red = red, !.z = z,
                                        !.shift = AtanShift(red), !.az = AtanAz(red, z)]]
  /\ Stage(t, "Reduce")
  /\ pc' = [pc EXCEPT ![t] = "atan_evaluate"]
  /\ UNCHANGED <<pending, arg, cos, ret, call, scalar, log>> /\ UnchBuild

\* line 54
AtanEvaluateStep(t) ==
  /\ pc[t] = "atan_evaluate"
  /\ LET a == Frame(atan, t)
     IN  atan' = [atan EXCEPT ![t] = [a EXCEPT !.y = eval_poly(a.z, a.az, a.shift)]]
  /\ Stage(t, "Evaluate")
  /\ pc' = [pc EXCEPT ![t] = "atan_reconstruct"]
  /\ UNCHANGED <<pending, arg, cos, ret, call, scalar, log>> /\ UnchBuild

\* lines 57-58
AtanReconstructStep(t) ==
  /\ pc[t] = "atan_reconstruct"
  /\ LET a == Frame(atan, t)
         y == AtanApplySign(a.y, a.sign)
     IN  /\ atan' = [atan EXCEPT ![t] = [a EXCEPT !.y = y]]
         /\ ret' = [ret EXCEPT ![t] = y]
  /\ Stage(t, "Reconstruct")
  /\ pc' = [pc EXCEPT ![t] = "return"]
  /\ UNCHANGED <<pending, arg, cos, call, scalar, log>> /\ UnchBuild

\* variant: the vector comes back through one static buffer
ResultStatic(t) == ret[1]
\* lines 74 and 58: the vector comes back in the caller's own register
Result(t) == ret[t]

\* the call hands its vector back to the caller
Return(t) ==
  /\ pc[t] = "return"
  /\ trace' = [trace EXCEPT ![t] = Append(@, "Return")]
  /\ log' = log \cup {[t |-> t, arg |-> arg[t], ret |-> Result(t),
                       scalar |-> scalar[t], trace |-> trace'[t]]}
  /\ pc' = [pc EXCEPT ![t] = "idle"]
  /\ UNCHANGED <<pending, arg, cos, atan, ret, call, scalar>> /\ UnchBuild

(***************************************************************************)
(* Inputs.                                                                 *)
(***************************************************************************)
CosInputs ==
  { U32(0, 0),            \*  0.0
    U32(1, 0),            \* -0.0
    U32(0, 1),            \*  0x1p-149 (subnormal)
    U32(1, 1065353216),   \* -1.0
    U32(0, 1061752795),   \*  0x1.921fb6p-1
    U32(0, 1232032121),   \*  0x1.dea2f2p+19
    U32(1, 1233125375),   \* -0x1.fffffep+19
    U32(0, 1233125376),   \*  0x1p20
    U32(1, 1233125376),   \* -0x1p20
    U32(0, 2139095040),   \*  inf
    U32(1, 2139095040),   \* -inf
    U32(0, 2143289344),   \*  NaN
    U32(1, 2141192192) }  \* -sNaN

\* what the lanes beside the lane under study hold: -1.0 or 0x1p20
CosCompanions == { U32(1, 1065353216), U32(0, 1233125376) }

CosVectors ==
  {x \in [Lanes -> CosInputs] : \E i \in Lanes : \A j \in Lanes \ {i} : x[j] \in CosCompanions}

\* calls with inactive lanes: <<a, b>> puts a in the lanes up to lane k, which
\* are active, and b in the lanes after it, which are not
PredicatedPairs ==
  { <<U32(1, 1065353216), U32(1, 2139095040)>>,   \* -1.0 beside -inf
    <<U32(0, 1233125376), U32(1, 1065353216)>>,   \* 0x1p20 beside -1.0
    <<U32(0, 1061752795), U32(0, 1232032121)>>,   \* 0x1.921fb6p-1 beside 0x1.dea2f2p+19
    <<U32(1, 1233125375), U32(1, 1233125376)>>,   \* -0x1.fffffep+19 beside -0x1p20
    <<U32(0, 2143289344), U32(1, 0)>> }           \* NaN beside -0.0

PredicatedCalls ==
  { [fn |-> "cos", x |-> [i \in Lanes |-> IF i <= k THEN ab[1] ELSE ab[2]],
     pg |-> [i \in Lanes |-> i <= k]] : ab \in PredicatedPairs, k \in 0..(NLanes - 1) }

CosCalls ==
  {[fn |-> "cos", x |-> x, pg |-> [i \in Lanes |-> TRUE]] : x \in CosVectors}
  \cup PredicatedCalls

AtanInputs ==
  { U64(0, 0, 0, 0),                    \*  0.0
    U64(1, 0, 0, 0),                    \* -0.0
    U64(0, 0, 0, 1),                    \*  0x1p-1074 (subnormal)
    U64(1, 992, 67108863, 67108863),    \* -0x1.fffffffffffffp-31
    U64(0, 993, 0, 0),                  \*  0x1p-30
    U64(1, 1022, 0, 0),                 \* -0.5
    U64(0, 1023, 0, 0),                 \*  1.0
    U64(0, 1023, 5820, 41690089),       \*  0x1.0005af27c23e9p+0
    U64(1, 1024, 0, 0),                 \* -2.0
    U64(0, 1075, 67108863, 67108863),   \*  0x1.fffffffffffffp+52
    U64(0, 1076, 0, 0),                 \*  0x1p53
    U64(1, 1076, 0, 1),                 \* -0x1.0000000000001p+53
    U64(0, 1077, 0, 0),                 \*  0x1p54
    U64(0, 2047, 0, 0),                 \*  inf
    U64(1, 2047, 0, 0),                 \* -inf
    U64(0, 2047, 33554432, 0) }         \*  NaN

AtanCalls == {[fn |-> "atan", x |-> x] : x \in [VLanes -> AtanInputs]}

Idle ==
  /\ pc = [t \in Threads |-> "idle"]
  /\ arg = [t \in Threads |-> [fn |-> "none"]]
  /\ cos = [t \in Threads |-> NoCosFrame]
  /\ atan = [t \in Threads |-> NoAtanFrame]
  /\ call = [t \in Threads |-> NoCall]
  /\ ret = [t \in Threads |-> NoVec]
  /\ scalar = [t \in Threads |-> <<>>]
  /\ trace = [t \in Threads |-> <<>>]
  /\ log = {}

Build == WANT_SIMD_EXCEPT \in {0, 1}

\* one thread makes one call, of any kernel on any input
Init ==
  /\ Build
  /\ Idle
  /\ \E c \in CosCalls \cup AtanCalls :
       pending = [t \in Threads |-> IF t = 1 THEN <<c>> ELSE <<>>]

Step(t) ==
  \/ CosCall(t)
  \/ CosAbsStep(t)
  \/ CosQStep(t)
  \/ CosNStep(t)
  \/ CosRStep(t)
  \/ CosEvaluateStep(t)
  \/ CosReconstructStep(t)
  \/ CosCheckStep(t)
  \/ SvCallEnter(t)
  \/ SvCallLane(t)
  \/ SvCallExit(t)
  \/ AtanCall(t)
  \/ AtanBitsStep(t)
  \/ AtanCheckStep(t)
  \/ VCallEnter(t)
  \/ VCallLane(t)
  \/ VCallExit(t)
  \/ AtanReduceStep(t)
  \/ AtanEvaluateStep(t)
  \/ AtanReconstructStep(t)
  \/ Return(t)

Next == \E t \in Threads : Step(t)

Spec == Init /\ [][Next]_vars

\* calls made from two threads at once
MaxCalls == 2

\* cos of (-inf, -1.0, ...) with every lane active, atan of (+inf, -0.5)
ConcCalls ==
  { [fn |-> "cos", x |-> [i \in Lanes |-> IF i = 1 THEN U32(1, 2139095040) ELSE U32(1, 1065353216)],
     pg |-> [i \in Lanes |-> TRUE]],
    [fn |-> "atan", x |-> <<U64(0, 2047, 0, 0), U64(1, 1022, 0, 0)>>] }

CallSeqs == UNION {[1..k -> ConcCalls] : k \in 0..MaxCalls}

InitConc ==
  /\ Build
  /\ Idle
  /\ pending \in {p \in [Threads -> CallSeqs] : Len(p[1]) + Len(p[2]) <= MaxCalls}

SpecConc == InitConc /\ [][Next]_vars

(***************************************************************************)
(* The kernels as functions of their arguments and the build.              *)
(***************************************************************************)
\* sv_cosf_2u1.c lines 41-68: the vector y before the branch of line 72
CosFast(x, pg, fm) ==
  LET v == CosReduce(x, pg, fm.reduce)
      e == CosEvaluate(v.r, v.q)
  IN  [cmp |-> v.cmp, y |-> CosReconstruct(pg, e.f, e.y, fm.reconstruct)]

\* the forms a build may select for the kernel
CosForms(pg) ==
  [reduce : [l41 : FormsUnder(pg, AndForms), l47 : FormsUnder(pg, FmlaForms),
             l48 : FormsUnder(pg, FsubForms), l51 : FormsUnder(pg, FmlaForms),
             l52 : FormsUnder(pg, FmlaForms), l53 : FormsUnder(pg, FmlaForms)],
   reconstruct : FormsUnder(pg, FmulForms)]

\* sv_cosf_2u1.c lines 36-75
CosKernel(x, pg, fm) ==
  LET v == CosFast(x, pg, fm)
  IN  IF CosCheck(pg, v.cmp)
      THEN [i \in Lanes |-> IF SpecialcaseCmp(pg, v.cmp)[i] THEN ScalarCosf(x[i]) ELSE v.y[i]]
      ELSE v.y

\* v_atan_2u5.c lines 45-58
AtanFast(x) ==
  LET red == AtanRed(x)
      z   == AtanZ(red, x)
  IN  AtanApplySign(eval_poly(z, AtanAz(red, z), AtanShift(red)), AtanSign(AtanIx(x)))

\* v_atan_2u5.c lines 26-59
AtanKernel(x) ==
  LET special == AtanSpecial(AtanIa12(AtanIx(x)))
  IN  IF WANT_SIMD_EXCEPT = 1 /\ v_any_u64(special)
      THEN [i \in VLanes |-> IF VCallPredicate(special)[i] # Zero64
                              THEN ScalarAtan(x[i]) ELSE Zero64]
      ELSE AtanFast(x)

\* the vectors a build may return for the call a
Kernel(a) ==
  IF a.fn = "cos" THEN {CosKernel(a.x, a.pg, fm) : fm \in CosForms(a.pg)}
  ELSE {AtanKernel(a.x)}

(***************************************************************************)
(* Properties.                                                             *)
(***************************************************************************)
Returning(t) == pc[t] = "return"
InCos(t) == arg[t].fn = "cos"
InAtan(t) == arg[t].fn = "atan"
Staged(t, name) == \E k \in DOMAIN trace[t] : trace[t][k] = name

\* |v| >= 2^20, an infinity or a NaN: the exponent field is at least 127 + 20
AtLeast2p20(v) == F32Exp(v) >= 147

\* |v| < 2^-30, or |v| >= 2^54, an infinity or a NaN
OutsideAtanBounds(v) == v.mag.e < TinyBound \/ v.mag.e > BigBound
AnyOutsideAtanBounds(x) == \E i \in VLanes : OutsideAtanBounds(x[i])

\* C1 (as the code has it): when a call is about to return, a cos lane holds
\* the scalar cosf of its input if its own predicate cmp is true and the
\* fast-path value y otherwise; an atan vector holds the fast-path value in
\* every lane, except that with WANT_SIMD_EXCEPT and any lane outside the
\* bounds every lane, inside the bounds or not, holds the scalar atan value.
C1_LaneRouting ==
  \A t \in Threads : Returning(t) =>
    /\ InCos(t) =>
         \A i \in Lanes :
           ret[t][i] = IF cos[t].cmp[i] THEN ScalarCosf(arg[t].x[i]) ELSE cos[t].y[i]
    /\ InAtan(t) =>
         IF WANT_SIMD_EXCEPT = 1 /\ AnyOutsideAtanBounds(arg[t].x)
         THEN \A i \in VLanes : ret[t][i] = ScalarAtan(arg[t].x[i])
         ELSE ret[t] = AtanFast(arg[t].x)

\* C1 as stated: every lane of every kernel is routed by its own predicate alone
C1_PerLaneEverywhere ==
  \A t \in Threads : Returning(t) =>
    /\ InCos(t) =>
         \A i \in Lanes :
           ret[t][i] = IF cos[t].cmp[i] THEN ScalarCosf(arg[t].x[i]) ELSE cos[t].y[i]
    /\ InAtan(t) =>
         \A i \in VLanes :
           ret[t][i] = IF WANT_SIMD_EXCEPT = 1 /\ OutsideAtanBounds(arg[t].x[i])
                       THEN ScalarAtan(arg[t].x[i]) ELSE AtanFast(arg[t].x)[i]

\* an atan call returns the scalar value in a lane whose own predicate is false
C1_Witness ==
  \E t \in Threads : \E i, j \in VLanes :
    /\ Returning(t) /\ InAtan(t) /\ WANT_SIMD_EXCEPT = 1
    /\ OutsideAtanBounds(arg[t].x[i]) /\ ~OutsideAtanBounds(arg[t].x[j])
    /\ ret[t][j] = ScalarAtan(arg[t].x[j])
    /\ ret[t][j] # AtanFast(arg[t].x)[j]

\* C2: once cmp is computed, a lane is flagged exactly when it is active and
\* |x| >= 2^20 (either sign, infinities and NaNs included); a flagged lane
\* returns the scalar cosf of the original signed x.
C2_FlaggedFrom2p20 ==
  \A t \in Threads : (InCos(t) /\ cos[t].cmp # NoVec) =>
    \A i \in Lanes :
      /\ cos[t].cmp[i] <=> (arg[t].pg[i] /\ AtLeast2p20(arg[t].x[i]))
      /\ (Returning(t) /\ cos[t].cmp[i]) => ret[t][i] = ScalarCosf(arg[t].x[i])

\* a negative lane at or above 2^20 beside an active negative lane below it
C2_Witness ==
  \E t \in Threads : \E i, j \in Lanes :
    /\ Returning(t) /\ InCos(t)
    /\ arg[t].pg[i] /\ arg[t].x[i].s = 1 /\ AtLeast2p20(arg[t].x[i])
    /\ ret[t][i] = ScalarCosf(arg[t].x[i])
    /\ arg[t].pg[j] /\ arg[t].x[j].s = 1 /\ ~cos[t].cmp[j]

\* C3: the scalar atan is invoked iff WANT_SIMD_EXCEPT is set and some lane is
\* special; then it is invoked for both lanes and every lane returns the
\* scalar value, none the fast-path value; otherwise it is never invoked and
\* every lane returns the fast-path value.
C3_WholeVectorFallback ==
  \A t \in Threads : InAtan(t) =>
    LET taken == WANT_SIMD_EXCEPT = 1 /\ v_any_u64(AtanSpecial(AtanIa12(arg[t].x)))
    IN  /\ scalar[t] # <<>> => taken
        /\ Returning(t) =>
             IF taken
             THEN /\ scalar[t] = <<1, 2>>
                  /\ \A i \in VLanes : /\ ret[t][i] = ScalarAtan(arg[t].x[i])
                                       /\ ret[t][i] # AtanFast(arg[t].x)[i]
             ELSE scalar[t] = <<>> /\ ret[t] = AtanFast(arg[t].x)

\* a vector holding +infinity and -0.5 comes back from the scalar routine
C3_Witness ==
  \E t \in Threads : \E i, j \in VLanes :
    /\ Returning(t) /\ InAtan(t)
    /\ arg[t].x[i] = U64(0, 2047, 0, 0) /\ arg[t].x[j] = U64(1, 1022, 0, 0)
    /\ scalar[t] = <<1, 2>>
    /\ ret[t][j] = ScalarAtan(arg[t].x[j])

\* C4 (as the code has it): a lane is special exactly when its biased exponent
\* is below TinyBound (|x| < 2^-30) or above BigBound (|x| >= 2^54, infinities
\* and NaNs), whatever its sign; an exponent equal to BigBound is not special.
C4_SpecialOutsideBounds ==
  \A t \in Threads : (InAtan(t) /\ atan[t].special # NoVec) =>
    \A i \in VLanes :
      atan[t].special[i] =
        Mask64(arg[t].x[i].mag.e < TinyBound \/ arg[t].x[i].mag.e > BigBound)

\* C4 as stated: special from the exponent BigBound (|x| >= 2^53) upwards
C4_SpecialFromBigBound ==
  \A t \in Threads : (InAtan(t) /\ atan[t].special # NoVec) =>
    \A i \in VLanes :
      atan[t].special[i] =
        Mask64(arg[t].x[i].mag.e < TinyBound \/ arg[t].x[i].mag.e >= BigBound)

\* a tiny lane is special, a lane of exponent BigBound beside it is not
C4_Witness ==
  \E t \in Threads : \E i, j \in VLanes :
    /\ InAtan(t) /\ atan[t].special # NoVec
    /\ arg[t].x[i].mag.e = BigBound /\ atan[t].special[i] = Zero64
    /\ arg[t].x[j].mag.e < TinyBound /\ atan[t].special[j] = AllOnes64

\* C5: scalar cosf is called for flagged lanes only and never twice for a
\* lane; at return it has been called once for each flagged lane, in lane
\* order, every unflagged lane holds its fast-path value, and with no flagged
\* lane there was no call and y is returned as it is.
C5_OneScalarCallPerFlaggedLane ==
  \A t \in Threads : InCos(t) =>
    /\ \A k \in DOMAIN scalar[t] :
         /\ cos[t].cmp[scalar[t][k]]
         /\ \A l \in DOMAIN scalar[t] : k < l => scalar[t][k] < scalar[t][l]
    /\ Returning(t) =>
         /\ {scalar[t][k] : k \in DOMAIN scalar[t]} = {i \in Lanes : cos[t].cmp[i]}
         /\ \A i \in Lanes : ~cos[t].cmp[i] => ret[t][i] = cos[t].y[i]
         /\ (\A i \in Lanes : ~cos[t].cmp[i]) => (scalar[t] = <<>> /\ ret[t] = cos[t].y)

\* a call with a flagged lane and an active unflagged lane is about to return
C5_Witness ==
  \E t \in Threads : \E i \in Lanes :
    /\ Returning(t) /\ InCos(t) /\ scalar[t] # <<>>
    /\ arg[t].pg[i] /\ ~cos[t].cmp[i] /\ i \notin {scalar[t][k] : k \in DOMAIN scalar[t]}
    /\ ret[t][i] = cos[t].y[i]

\* C9: cmp is a subset of pg; scalar cosf is never called for an inactive
\* lane; the fallback branch is taken only if an active lane is at or above
\* 2^20; the predicate handed to the special-case routine holds every active
\* lane at or above 2^20.
C9_CmpWithinPg ==
  \A t \in Threads : (InCos(t) /\ cos[t].cmp # NoVec) =>
    /\ \A i \in Lanes : cos[t].cmp[i] => arg[t].pg[i]
    /\ \A k \in DOMAIN scalar[t] : arg[t].pg[scalar[t][k]]
    /\ Staged(t, "Fallback") => \E i \in Lanes : arg[t].pg[i] /\ AtLeast2p20(arg[t].x[i])
    /\ pc[t] \in {"cos_special", "sv_call"} =>
         \A i \in Lanes : (arg[t].pg[i] /\ AtLeast2p20(arg[t].x[i])) => call[t].cmp[i]

\* an inactive lane holds an infinity or a NaN and the call returns y untouched
C9_Witness ==
  \E t \in Threads : \E i, j \in Lanes :
    /\ Returning(t) /\ InCos(t)
    /\ ~arg[t].pg[i] /\ F32Exp(arg[t].x[i]) = 255 /\ ~cos[t].cmp[i]
    /\ arg[t].pg[j] /\ ~Staged(t, "Fallback") /\ scalar[t] = <<>>

\* C6: for every finite lane the kernel applied to the negated vector returns
\* the returned value with only the sign flipped, so -0.0 gives -0.0 on the
\* fast path; before the sign is XORed in, red, shift, az and y are those of
\* the negated vector and y is non-negative.
C6_Antisymmetric ==
  \A t \in Threads : InAtan(t) =>
    LET x    == arg[t].x
        nx   == vnegq_f64(x)
        nred == AtanRed(nx)
        nz   == AtanZ(nred, nx)
        naz  == AtanAz(nred, nz)
    IN  /\ Returning(t) =>
             \A i \in VLanes : x[i].mag.e < 2047 =>
               /\ AtanKernel(nx)[i] = FPNeg64(ret[t][i])
               /\ AtanKernel(nx)[i] # ret[t][i]
               /\ (IsZero64(x[i]) /\ ~Staged(t, "Fallback")) => ret[t][i] = x[i]
        /\ pc[t] = "atan_reconstruct" =>
             /\ nred = atan[t].red
             /\ AtanShift(nred) = atan[t].shift
             /\ \A i \in VLanes : x[i].mag.e < 2047 =>
                  /\ naz[i] = atan[t].az[i]
                  /\ eval_poly(nz, naz, AtanShift(nred))[i] = atan[t].y[i]
                  /\ atan[t].y[i].s = 0

\* the fast path returns -0.0 for -0.0 and a negative value for a reduced -2.0
C6_Witness ==
  \E t \in Threads : \E i, j \in VLanes :
    /\ Returning(t) /\ InAtan(t) /\ ~Staged(t, "Fallback")
    /\ arg[t].x[i] = U64(1, 0, 0, 0) /\ ret[t][i] = U64(1, 0, 0, 0)
    /\ arg[t].x[j] = U64(1, 1024, 0, 0) /\ atan[t].red[j] = AllOnes64 /\ ret[t][j].s = 1

\* the sign of 2 * |x| * m * 2^l - (2 * N + d), for |x| = F32Sig(x) * 2^F32Lsb(x)
ProductAgainst(x, m, l, N, d) ==
  IF 2 * N + d < 0 THEN 1
  ELSE NatCmp(NatMul(NatOfInt(2 * F32Sig(x)), NatOfInt(m)),
              NatShl(NatOfInt(2 * N + d), 0 - (F32Lsb(x) + l)))

\* N is an integer nearest to |x| * InvPio2
NearestToScaled(x, N) ==
  /\ ProductAgainst(x, F32Sig(InvPio2), F32Lsb(InvPio2), N, -1) >= 0
  /\ ProductAgainst(x, F32Sig(InvPio2), F32Lsb(InvPio2), N, 1) <= 0

\* N is an integer nearest to |x| * 2/pi, 683565275 * 2^-30 < 2/pi < 683565276 * 2^-30
NearestToTwoOverPi(x, N) ==
  /\ ProductAgainst(x, 683565276, -30, N, -1) >= 0
  /\ ProductAgainst(x, 683565275, -30, N, 1) <= 0

\* the integer the biased sum q of lane i carries above Shift
QuadrantOf(t, i) == cos[t].q[i].m - Shift.m

\* q in [2^23, 2^24); q - Shift = N exactly; the low two bits of q are
\* (N + 1) mod 4; the factor is 1.0 or r by the parity of N, signed by the quadrant
QuadrantEncoded(t, i, N) ==
  LET q == cos[t].q[i]
      n == cos[t].n[i]
      r == cos[t].r[i]
      f == cos[t].f[i]
  IN  /\ F32Exp(Shift) = 150 /\ F32Sig(Shift) = 12582913
      /\ q.s = 0 /\ F32Exp(q) = 150 /\ N >= 0
      /\ n.s = 0
      /\ IF N = 0 THEN n.m = 0
         ELSE /\ F32Exp(n) \in 127..150
              /\ F32Sig(n) % 2 ^ (150 - F32Exp(n)) = 0
              /\ F32Sig(n) \div 2 ^ (150 - F32Exp(n)) = N
      /\ q.m % 2 = (N + 1) % 2
      /\ q.m % 4 = (N + 1) % 4
      /\ cos[t].r2[i].s = (N + 1) % 2
      /\ f = IF N % 4 = 0 THEN U32(0, 1065353216)
             ELSE IF N % 4 = 1 THEN U32(1 - r.s, r.m)
             ELSE IF N % 4 = 2 THEN U32(1, 1065353216)
             ELSE r

\* C10 (as the code has it): for every active unflagged lane, q = Shift + N
\* exactly, N being an integer nearest to |x| * InvPio2 with the
\* single-precision InvPio2, and n, the low bits of q and the factor follow N.
C10_BiasedSum ==
  \A t \in Threads : (InCos(t) /\ cos[t].f # NoVec) =>
    \A i \in Lanes : (arg[t].pg[i] /\ ~cos[t].cmp[i]) =>
      /\ NearestToScaled(arg[t].x[i], QuadrantOf(t, i))
      /\ QuadrantEncoded(t, i, QuadrantOf(t, i))

\* C10 as stated: the integer in q is round(|x| * 2/pi)
C10_RoundOfTwoOverPi ==
  \A t \in Threads : (InCos(t) /\ cos[t].f # NoVec) =>
    \A i \in Lanes : (arg[t].pg[i] /\ ~cos[t].cmp[i]) =>
      /\ NearestToTwoOverPi(arg[t].x[i], QuadrantOf(t, i))
      /\ QuadrantEncoded(t, i, QuadrantOf(t, i))

\* x = 0x1.921fb6p-1 gives N = 0 and the factor 1.0 although |x| * 2/pi > 1/2;
\* x = -1.0 beside it gives N = 1 and the factor -r
C10_Witness ==
  \E t \in Threads : \E i, j \in Lanes :
    /\ InCos(t) /\ cos[t].f # NoVec /\ arg[t].pg[i] /\ arg[t].pg[j]
    /\ arg[t].x[i] = U32(0, 1061752795) /\ QuadrantOf(t, i) = 0
    /\ cos[t].f[i] = U32(0, 1065353216)
    /\ ~NearestToTwoOverPi(arg[t].x[i], 0)
    /\ arg[t].x[j] = U32(1, 1065353216) /\ QuadrantOf(t, j) = 1
    /\ cos[t].f[j] = U32(1 - cos[t].r[j].s, cos[t].r[j].m)

\* how far a thread is through its call, and an upper bound on the steps left
PcIndex(p) ==
  CASE p = "cos_reduce" -> 1 [] p = "cos_q" -> 2 [] p = "cos_n" -> 3 [] p = "cos_r1" -> 4
    [] p = "cos_r2" -> 5 [] p = "cos_r3" -> 6 [] p = "cos_evaluate" -> 7
    [] p = "cos_reconstruct" -> 8 [] p = "cos_check" -> 9 [] p = "cos_special" -> 10
    [] p = "sv_call" -> 11
    [] p = "atan_bits" -> 1 [] p = "atan_check" -> 2 [] p = "atan_special" -> 3
    [] p = "v_call" -> 4 [] p = "atan_reduce" -> 5 [] p = "atan_evaluate" -> 6
    [] p = "atan_reconstruct" -> 7 [] p = "return" -> 12 [] p = "idle" -> 13

LoopLeft(t) ==
  IF pc[t] = "sv_call"
  THEN Cardinality({i \in Lanes : call[t].cmp[i]}) - Len(scalar[t])
  ELSE IF pc[t] = "v_call" THEN 3 - call[t].p
  ELSE 0

StepsLeft(t) ==
  (Len(pending[t]) * 13 + (13 - PcIndex(pc[t]))) * (NLanes + 3) + LoopLeft(t)

\* a step takes one thread nearer to its return
Advances == StepsLeft(1)' + StepsLeft(2)' < StepsLeft(1) + StepsLeft(2)

CosOrder(a) ==
  IF \E i \in Lanes : a.pg[i] /\ AtLeast2p20(a.x[i])
  THEN <<"Reduce", "Evaluate", "Reconstruct", "Check", "Fallback", "Return">>
  ELSE <<"Reduce", "Evaluate", "Reconstruct", "Check", "Return">>

AtanOrder(a) ==
  IF WANT_SIMD_EXCEPT = 0 THEN <<"Reduce", "Evaluate", "Reconstruct", "Return">>
  ELSE IF AnyOutsideAtanBounds(a.x) THEN <<"Check", "Fallback", "Return">>
  ELSE <<"Check", "Reduce", "Evaluate", "Reconstruct", "Return">>

StageOrder(a) == IF a.fn = "cos" THEN CosOrder(a) ELSE AtanOrder(a)

\* the stages of a call so far are the first stages of its order; cos has
\* computed y for every lane when it tests the predicate; an atan call that
\* falls back has computed no fast-path value; a call under way is at a
\* statement of its kernel with steps left, a loop at a lane or at its end
StagesInOrder ==
  /\ \A e \in log : e.trace = StageOrder(e.arg)
  /\ \A t \in Threads : pc[t] # "idle" =>
       /\ Len(trace[t]) < Len(StageOrder(arg[t]))
       /\ trace[t] = SubSeq(StageOrder(arg[t]), 1, Len(trace[t]))
       /\ (InCos(t) /\ Staged(t, "Check")) => DOMAIN cos[t].y = Lanes
       /\ (InAtan(t) /\ Staged(t, "Fallback")) => atan[t].y = NoVec
       /\ StepsLeft(t) > 0 /\ LoopLeft(t) >= 0
       /\ pc[t] = "sv_call" => (call[t].p = 0 \/ (call[t].p \in Lanes /\ call[t].cmp[call[t].p]))
       /\ pc[t] = "v_call" => call[t].p \in 1..3

AllReturned == \A t \in Threads : pc[t] = "idle" /\ pending[t] = <<>>


\* C7 (as the code has it): every call runs on to its return in a bounded
\* number of steps, and its stages are, for cos,
\* Reduce, Evaluate, Reconstruct, Check, Fallback if an active lane is
\* flagged, Return; for atan without WANT_SIMD_EXCEPT, Reduce, Evaluate,
\* Reconstruct, Return with no Check; for atan with WANT_SIMD_EXCEPT, Check
\* first and then either Fallback, Return with the fast path skipped, or
\* Reduce, Evaluate, Reconstruct, Return.  No stage is repeated.
C7_StraightLinePass == []StagesInOrder /\ [][Advances]_vars

\* C7 as stated: every call of every kernel passes Reduce, Evaluate,
\* Reconstruct, Check, then Fallback or nothing, then Return
C7_OneOrderForAll ==
  \A e \in log :
    \/ e.trace = <<"Reduce", "Evaluate", "Reconstruct", "Check", "Return">>
    \/ e.trace = <<"Reduce", "Evaluate", "Reconstruct", "Check", "Fallback", "Return">>

\* an atan call that fell back without the fast path has returned, and so
\* has one that never tested a predicate
C7_Witness ==
  \E e \in log :
    /\ e.arg.fn = "atan"
    /\ e.trace \in {<<"Check", "Fallback", "Return">>,
                    <<"Reduce", "Evaluate", "Reconstruct", "Return">>}
    /\ AllReturned

\* a step writes the frames of one thread only and never the build
OwnFramesOnly ==
  /\ UNCHANGED WANT_SIMD_EXCEPT
  /\ \E t \in Threads : \A u \in Threads \ {t} :
       UNCHANGED <<pc[u], arg[u], cos[u], atan[u], call[u], ret[u], scalar[u], trace[u]>>

\* every vector handed back is the kernel's function of the call's arguments
\* and the build, and two calls with the same arguments returned the same bits
ReturnsAreFunctional ==
  /\ \A t \in Threads : Returning(t) => Kernel(arg[t]) = {Result(t)}
  /\ \A e1, e2 \in log : e1.arg = e2.arg => e1.ret = e2.ret

\* C8: whatever calls ran before or run at the same time on another thread,
\* a call returns the kernel's function of its input vector, its predicate
\* and WANT_SIMD_EXCEPT, and no step writes another call's state.
C8_PureStateless == []ReturnsAreFunctional /\ [][OwnFramesOnly]_vars

\* thread 2 is about to return, from a cos call that fell back, the bits
\* thread 1 has returned for the same arguments
C8_Witness ==
  \E e \in log :
    /\ e.t = 1 /\ e.arg.fn = "cos" /\ e.scalar # <<>>
    /\ Returning(2) /\ arg[2] = e.arg /\ Result(2) = e.ret
====
